---------------------------- MODULE Spec2Model ----------------------------
(***************************************************************************)
(* A model of hamsci_LSTID_detect/edge_detection.py.                       *)
(*                                                                         *)
(* Arrays are sequences; an index returned by the program (argmin, the     *)
(* island bounds) keeps numpy's 0-based value.  Floating-point quantities  *)
(* are exact: a quotient is a pair <<numerator, denominator>> or is kept   *)
(* cross-multiplied, periods are in tenths of an hour, r2 in hundredths,   *)
(* quantiles in tenths, times of day in minutes after midnight of `date`.  *)
(* A raised exception is a result record whose status is its class name.   *)
(***************************************************************************)
EXTENDS Integers, Sequences, FiniteSets, TLC

VARIABLES
    lstid_criteria_default, \* the dict object bound to run_edge_detect's default
    last,                   \* the latest run_edge_detect call: arguments and outcome
    remembered,             \* an earlier call kept for comparison
    args,                   \* arguments of the pure function under study
    ret                     \* its outcome, [status |-> "pending"] before the call

vars == <<lstid_criteria_default, last, remembered, args, ret>>

runVars == <<lstid_criteria_default, last, remembered>>

pureVars == <<args, ret>>

(***************************************************************************)
(* Outcomes and small helpers                                              *)
(***************************************************************************)
Ok(v) == [status |-> "ok", value |-> v]

Raise(kind) == [status |-> kind]

Pending == [status |-> "pending"]

NoCall == [status |-> "none", seq |-> 0]

SetMax(S) == CHOOSE x \in S : \A y \in S : y <= x

SetMin(S) == CHOOSE x \in S : \A y \in S : x <= y

Range(s) == {s[i] : i \in DOMAIN s}

Reverse(s) == [i \in 1..Len(s) |-> s[Len(s) + 1 - i]]

RECURSIVE SumSeq(_)
SumSeq(s) == IF s = <<>> THEN 0 ELSE Head(s) + SumSeq(Tail(s))

\* np.cumsum
CumSum(s) == [i \in 1..Len(s) |-> SumSeq(SubSeq(s, 1, i))]

\* np.arange(a, b) for integers
Arange(a, b) == [i \in 1..(IF b > a THEN b - a ELSE 0) |-> a + i - 1]

\* All sequences over S of length lo..hi
SeqsOf(S, lo, hi) == UNION {[1..k -> S] : k \in lo..hi}

\* The pure-function specifications leave run_edge_detect's state alone.
RunIdle ==
    /\ lstid_criteria_default = <<>>
    /\ last = NoCall
    /\ remembered = NoCall

(***************************************************************************)
(* occurrence_max                                                          *)
(***************************************************************************)
MaxArrLen == 3

PixelValues == {0, 1, 2, 3}

\* np.histogram(arr, bins=edges): bin k is [edges[k], edges[k+1]), the last
\* bin is closed on the right.
Histogram(arr, edges) ==
    [k \in 1..(Len(edges) - 1) |->
        Cardinality({i \in DOMAIN arr :
            /\ edges[k] <= arr[i]
            /\ \/ arr[i] < edges[k + 1]
               \/ k = Len(edges) - 1 /\ arr[i] = edges[k + 1]})]

occurrence_max(arr, n) ==
    LET lo    == SetMin(Range(arr))
        hi    == SetMax(Range(arr))
        edges == Arange(lo, hi + 2)
        hist0 == Histogram(arr, edges)
        bins0 == Tail(edges)                    \* bins = bins[1:]
        hist1 == CumSum(Reverse(hist0))         \* hist[::-1], np.cumsum
        bins1 == Reverse(bins0)                 \* bins[::-1]
        kept  == {bins1[k] : k \in {j \in DOMAIN bins1 : hist1[j] >= n}}
    IN  IF kept = {} THEN Raise("ValueError")   \* np.max of an empty array
        ELSE Ok(SetMax(kept))

InitOccurrence ==
    /\ RunIdle
    /\ args \in [arr : SeqsOf(PixelValues, 1, MaxArrLen), n : 0..(MaxArrLen + 1)]
    /\ ret = Pending

CallOccurrenceMax ==
    /\ ret = Pending
    /\ ret' = occurrence_max(args.arr, args.n)
    /\ UNCHANGED <<args, runVars>>

SpecOccurrence == InitOccurrence /\ [][CallOccurrenceMax]_vars

\* C8: for every non-empty integer array, occurrence_max(arr, 0) is the true
\* maximum element of arr.
C8_ZeroIsTrueMax ==
    (ret.status # "pending" /\ args.n = 0) =>
        (ret.status = "ok" /\ ret.value = SetMax(Range(args.arr)))

(***************************************************************************)
(* rescale_to_int                                                          *)
(***************************************************************************)
UInt8Max == 255

UInt16Max == 65535

\* round() of the non-negative quotient num/den: numpy rounds halves to even
RoundHalfEven(num, den) ==
    LET q == num \div den
        r == num % den
    IN  IF 2 * r < den THEN q
        ELSE IF 2 * r > den THEN q + 1
        ELSE IF q % 2 = 0 THEN q ELSE q + 1

\* rescale_to_int on the flattened array, with the ceiling its first check
\* compares i_max against; every step is elementwise, and np.histogram inside
\* occurrence_max flattens its input.
RescaleWithCeiling(arr, occurrence_n, i_max, ceiling) ==
    IF i_max > ceiling THEN Raise("ValueError")
    ELSE IF SetMax(Range(arr)) > UInt16Max THEN Raise("ValueError")
    ELSE
        LET lo      == SetMin(Range(arr))
            shifted == [i \in DOMAIN arr |-> arr[i] - lo]
            asU16   == [i \in DOMAIN arr |-> shifted[i] % (UInt16Max + 1)]
            max_val == occurrence_max(asU16, occurrence_n)
        IN  IF max_val.status # "ok" THEN max_val
            \* arr * (i_max / max_val) > 255, cross-multiplied
            ELSE IF SetMax(Range(shifted)) * i_max > UInt8Max * max_val.value
                 THEN Raise("ValueError")
            ELSE Ok([i \in DOMAIN arr |->
                      RoundHalfEven(shifted[i] * i_max, max_val.value)
                          % (UInt8Max + 1)])

\* the first check written as i_max > 2**8
RescaleCeilingOffByOne(arr, occurrence_n, i_max) ==
    RescaleWithCeiling(arr, occurrence_n, i_max, UInt8Max + 1)

rescale_to_int(arr, occurrence_n, i_max) ==
    RescaleWithCeiling(arr, occurrence_n, i_max, UInt8Max)

RescaleValues == {0 - 1, 0, 1, 3, 65536}

IMaxChoices == {2, 5, 30, 255, 256}

InitRescale ==
    /\ RunIdle
    /\ args \in [arr : SeqsOf(RescaleValues, 1, MaxArrLen),
                 occurrence_n : 0..(MaxArrLen + 1),
                 i_max : IMaxChoices]
    /\ ret = Pending

CallRescaleToInt ==
    /\ ret = Pending
    /\ ret' = rescale_to_int(args.arr, args.occurrence_n, args.i_max)
    /\ UNCHANGED <<args, runVars>>

SpecRescale == InitRescale /\ [][CallRescaleToInt]_vars

\* C9: rescale_to_int raises whenever i_max exceeds 255, and an array it
\* returns holds no value above 255.
C9_RescaleCeiling ==
    ret.status # "pending" =>
        /\ args.i_max > 255 => ret.status = "ValueError"
        /\ ret.status = "ok" => \A i \in DOMAIN ret.value : ret.value[i] <= 255

\* a call with the largest admitted ceiling returns an array that reaches 255
C9_Witness ==
    /\ ret.status = "ok"
    /\ args.i_max = 255
    /\ args.occurrence_n <= Len(args.arr)
    /\ 255 \in Range(ret.value)

(***************************************************************************)
(* stack_all_thresholds                                                    *)
(* A frame is a sequence of rows; axis 0 (the rows) is the range axis.     *)
(***************************************************************************)
MaxTimeBins == 2

RangeBinCounts == {1, 2}

StackPixelValues == {0, 1, 2}

Frames2D ==
    UNION {[1..r -> [1..c -> StackPixelValues]] :
              r \in RangeBinCounts, c \in 1..MaxTimeBins}

NRows(frame) == Len(frame)

NCols(frame) == Len(frame[1])

\* row-major flattening, and its inverse for a given number of columns
Flatten(frame) ==
    [i \in 1..(NRows(frame) * NCols(frame)) |->
        frame[((i - 1) \div NCols(frame)) + 1][((i - 1) % NCols(frame)) + 1]]

Reshape(flat, nrows, ncols) ==
    [r \in 1..nrows |-> [c \in 1..ncols |-> flat[(r - 1) * ncols + c]]]

\* The frame as stack_all_thresholds holds it after line 145
RescaledFrame(frame, occurrence_n, i_max) ==
    LET res == rescale_to_int(Flatten(frame), occurrence_n, i_max)
    IN  IF res.status # "ok" THEN res
        ELSE Ok(Reshape(res.value, NRows(frame), NCols(frame)))

\* the elements of a finite set of integers in ascending order
RECURSIVE SortedSeq(_)
SortedSeq(S) ==
    IF S = {} THEN <<>> ELSE <<SetMin(S)>> \o SortedSeq(S \ {SetMin(S)})

\* every integer between the smallest and the largest level
DenseLevels(arr) ==
    Arange(SetMin(Range(Flatten(arr))), SetMax(Range(Flatten(arr))) + 1)

\* np.unique(arr)
Unique(arr) == SortedSeq(Range(Flatten(arr)))

\* np.argmin / np.argmax of a 0/1 column: the first index holding the
\* smallest / largest value, 0-based
ArgMin(col) ==
    LET m == SetMin(Range(col))
    IN  SetMin({i \in DOMAIN col : col[i] = m}) - 1

ArgMax(col) ==
    LET m == SetMax(Range(col))
    IN  SetMin({i \in DOMAIN col : col[i] = m}) - 1

\* thresh_mask.astype(np.uint8) for one threshold
ThreshMask(arr, threshold, exact_thresh) ==
    [r \in 1..NRows(arr) |-> [c \in 1..NCols(arr) |->
        IF exact_thresh
        THEN (IF arr[r][c] <= threshold THEN 1 ELSE 0)
        ELSE (IF arr[r][c] # threshold THEN 1 ELSE 0)]]

\* idx_fn(mask, axis=0, keepdims=True): one row, of shape (1, ncols)
ThreshEdge(arr, threshold, select_min, exact_thresh) ==
    LET mask == ThreshMask(arr, threshold, exact_thresh)
    IN  [c \in 1..NCols(arr) |->
            LET col == [r \in 1..NRows(arr) |-> mask[r][c]]
            IN  IF select_min THEN ArgMin(col) ELSE ArgMax(col)]

\* max(thresh_edge.shape) != max(arr.shape), with thresh_edge of shape (1, ncols)
ShapeMismatch(arr) ==
    LET edgeMax == IF NCols(arr) > 1 THEN NCols(arr) ELSE 1
        arrMax  == IF NCols(arr) > NRows(arr) THEN NCols(arr) ELSE NRows(arr)
    IN  edgeMax # arrMax

stack_all_thresholds(frame, select_min, exact_thresh, occurrence_n, i_max) ==
    LET res == RescaledFrame(frame, occurrence_n, i_max)
    IN  IF res.status # "ok" THEN res
        ELSE
            LET arr        == res.value
                thresholds == Unique(arr)
            \* the loop checks the shape at its first threshold; np.unique of
            \* a non-empty array is never empty
            IN  IF ShapeMismatch(arr) THEN Raise("ValueError")
                ELSE Ok([k \in DOMAIN thresholds |->
                          ThreshEdge(arr, thresholds[k], select_min, exact_thresh)])

InitStack ==
    /\ RunIdle
    /\ args \in [arr : Frames2D, select_min : BOOLEAN, exact_thresh : BOOLEAN,
                 occurrence_n : {0, 2}, i_max : {2, 30}]
    /\ ret = Pending

CallStackAllThresholds ==
    /\ ret = Pending
    /\ ret' = stack_all_thresholds(args.arr, args.select_min, args.exact_thresh,
                                   args.occurrence_n, args.i_max)
    /\ UNCHANGED <<args, runVars>>

SpecStack == InitStack /\ [][CallStackAllThresholds]_vars

\* C10: the returned stack has one row per distinct level of the rescaled
\* frame, in ascending level order (row k holds, for each column, the first
\* range index whose mask bit is the one argmin / argmax looks for, or 0 when
\* the column has none), and every entry is a valid range-axis index.
C10_StackShape ==
    ret.status = "ok" =>
        LET arr    == RescaledFrame(args.arr, args.occurrence_n, args.i_max).value
            levels == {arr[r][c] : r \in 1..NRows(arr), c \in 1..NCols(arr)}
            stack  == ret.value
            sought == IF args.select_min THEN 0 ELSE 1
            Bit(v, t) == IF args.exact_thresh
                         THEN (IF v <= t THEN 1 ELSE 0)
                         ELSE (IF v # t THEN 1 ELSE 0)
        IN  /\ Len(stack) = Cardinality(levels)
            /\ \A k \in DOMAIN stack :
                 LET t == CHOOSE u \in levels :
                              Cardinality({w \in levels : w < u}) = k - 1
                 IN  \A c \in 1..NCols(arr) :
                       LET hits == {r \in 1..NRows(arr) : Bit(arr[r][c], t) = sought}
                       IN  /\ Len(stack[k]) = NCols(arr)
                           /\ stack[k][c] >= 0
                           /\ stack[k][c] < NRows(args.arr)
                           /\ stack[k][c] = IF hits = {} THEN 0
                                            ELSE SetMin(hits) - 1

\* a frame of two range bins with three distinct levels, one of them first
\* met at range index 1
C10_Witness ==
    /\ ret.status = "ok"
    /\ NRows(args.arr) = 2
    /\ Len(ret.value) = 3
    /\ \E k \in DOMAIN ret.value : \E c \in DOMAIN ret.value[k] : ret.value[k][c] = 1

(***************************************************************************)
(* take_quantile                                                           *)
(* A stack cell is <<v>> for the number v and <<>> for NaN; q is a record  *)
(* of its Python type and its value in tenths.                             *)
(***************************************************************************)
MaxStackRows == 3

NaN == <<>>

StackCells == {NaN, <<10>>, <<13>>}

QuantileStacks == UNION {[1..r -> [1..2 -> StackCells]] : r \in 1..MaxStackRows}

QuantileArgs ==
    [type : {"float"}, tenths : (0 - 2)..12] \cup [type : {"int"}, tenths : {0, 10}]

\* np.nanquantile of one column, in tenths: NaN cells are dropped, the rest
\* sorted, and position q * (n - 1) is interpolated linearly
NanQuantileColumn(col, qTenths) ==
    LET present == {i \in DOMAIN col : col[i] # NaN}
        n       == Cardinality(present)
        \* the present values in ascending order, ties kept
        sorted  == [k \in 1..n |->
                      CHOOSE v \in {col[i][1] : i \in present} :
                        /\ Cardinality({i \in present : col[i][1] < v}) < k
                        /\ Cardinality({i \in present : col[i][1] <= v}) >= k]
        pos     == qTenths * (n - 1)
        lo      == (pos \div 10) + 1
        frac    == pos % 10
    IN  IF n = 0 THEN NaN
        ELSE IF frac = 0 THEN <<10 * sorted[lo]>>
        ELSE <<10 * sorted[lo] + frac * (sorted[lo + 1] - sorted[lo])>>

\* np.nanquantile(thresh_arr, q, axis=0): rejects q outside [0, 1]
NanQuantile(thresh_arr, qTenths) ==
    IF qTenths < 0 \/ qTenths > 10 THEN Raise("ValueError")
    ELSE Ok([c \in 1..NCols(thresh_arr) |->
               NanQuantileColumn([r \in 1..NRows(thresh_arr) |-> thresh_arr[r][c]],
                                 qTenths)])

take_quantile(thresh_arr, q) ==
    IF q.type # "float" THEN Raise("TypeError")
    \* the chained comparison 0 >= q >= 1 is (0 >= q) and (q >= 1)
    ELSE IF 0 >= q.tenths /\ q.tenths >= 10 THEN Raise("ValueError")
    ELSE NanQuantile(thresh_arr, q.tenths)

InitQuantile ==
    /\ RunIdle
    /\ args \in [thresh_arr : QuantileStacks, q : QuantileArgs]
    /\ ret = Pending

CallTakeQuantile ==
    /\ ret = Pending
    /\ ret' = take_quantile(args.thresh_arr, args.q)
    /\ UNCHANGED <<args, runVars>>

SpecQuantile == InitQuantile /\ [][CallTakeQuantile]_vars

\* C6: take_quantile raises a validation error for every float q with q <= 0
\* or q >= 1, and computes a quantile only for 0 < q < 1.
C6_OpenIntervalOnly ==
    (ret.status # "pending" /\ args.q.type = "float") =>
        /\ (args.q.tenths <= 0 \/ args.q.tenths >= 10) => ret.status = "ValueError"
        /\ ret.status = "ok" => (0 < args.q.tenths /\ args.q.tenths < 10)

(***************************************************************************)
(* islandinfo                                                              *)
(***************************************************************************)
MaxIslandLen == 10

\* the elements of s at positions first, first + 2, ... (1-based)
EveryOther(s, first) ==
    [k \in 1..((Len(s) - first + 2) \div 2) |-> s[first + 2 * (k - 1)]]

\* np.flatnonzero(y_ext[:-1] != y_ext[1:]) for y_ext = np.r_[False, y == trigger_val, False]
ShiftIndices(y, trigger_val) ==
    LET y_ext == <<FALSE>> \o [i \in DOMAIN y |-> y[i] = trigger_val] \o <<FALSE>>
    IN  SortedSeq({j - 1 : j \in {i \in 1..(Len(y_ext) - 1) : y_ext[i] # y_ext[i + 1]}})

IslandsFrom(idx, stopind_inclusive) ==
    LET starts == EveryOther(SubSeq(idx, 1, Len(idx) - 1), 1)    \* idx[:-1:2]
        stops  == EveryOther(idx, 2)                             \* idx[1::2]
        short  == IF Len(starts) < Len(stops) THEN Len(starts) ELSE Len(stops)
    IN  [islands |-> [k \in 1..short |->
                        <<starts[k], stops[k] - (IF stopind_inclusive THEN 1 ELSE 0)>>],
         lens    |-> [k \in 1..Len(stops) |-> stops[k] - starts[k]]]

\* the stop index left exclusive whatever the flag says
IslandinfoExclusiveStop(y, trigger_val, stopind_inclusive) ==
    Ok(IslandsFrom(ShiftIndices(y, trigger_val), FALSE))

islandinfo(y, trigger_val, stopind_inclusive) ==
    Ok(IslandsFrom(ShiftIndices(y, trigger_val), stopind_inclusive))

InitIslands ==
    /\ RunIdle
    /\ args \in [y : SeqsOf({0, 1}, 0, MaxIslandLen), trigger_val : {0, 1},
                 stopind_inclusive : BOOLEAN]
    /\ ret = Pending

CallIslandinfo ==
    /\ ret = Pending
    /\ ret' = islandinfo(args.y, args.trigger_val, args.stopind_inclusive)
    /\ UNCHANGED <<args, runVars>>

SpecIslands == InitIslands /\ [][CallIslandinfo]_vars

ExampleRun == <<0, 1, 1, 0, 1, 0, 0, 1, 1, 1>>

IsExampleCall ==
    /\ ret.status = "ok"
    /\ args.y = ExampleRun
    /\ args.trigger_val = 1
    /\ args.stopind_inclusive

\* C7 as stated: for [0,1,1,0,1,0,0,1,1,1] with trigger value 1, islandinfo
\* returns exactly two runs, and the run lengths are {2, 3}.
C7_TwoRuns ==
    IsExampleCall =>
        /\ Len(ret.value.islands) = 2
        /\ Len(ret.value.lens) = 2
        /\ Range(ret.value.lens) = {2, 3}

\* C7 as amended: for [0,1,1,0,1,0,0,1,1,1] with trigger value 1, islandinfo
\* returns exactly the three maximal runs (1,2), (4,4), (7,9), with inclusive
\* bounds, and the run lengths 2, 1, 3.
C7_ThreeRuns ==
    IsExampleCall =>
        /\ ret.value.islands = <<<<1, 2>>, <<4, 4>>, <<7, 9>>>>
        /\ ret.value.lens = <<2, 1, 3>>

C7_Witness == IsExampleCall

(***************************************************************************)
(* run_edge_detect, lines 483-556: resampling, stability, fit window       *)
(* Times are minutes after midnight of `date`.  The frame's sample times   *)
(* lie on the resampling grid x_0 + k * Ts, so np.interp reads a sample    *)
(* where there is one and holds the first / last in-window value outside.  *)
(***************************************************************************)
x_0 == 12 * 60

x_1 == 24 * 60

win_0 == 13 * 60

win_1 == 23 * 60

margin == 30

roll_win == 15

\* stab_thresh = 0.05 = 1 / StabThreshInverse
StabThreshInverse == 20

TsChoices == {6, 30, 50}

\* edge heights; the coefficient of variation does not depend on their unit
EdgeLevels == {0, 10, 11, 20}

\* times_interp: x_0, then steps of Ts until x_1 is reached or passed
RECURSIVE TimesInterp(_, _)
TimesInterp(times, Ts) ==
    IF times[Len(times)] < x_1
    THEN TimesInterp(Append(times, times[Len(times)] + Ts), Ts)
    ELSE times

\* the grid times inside the analysis window: the index of edge_0[tf]
WindowTimes(Ts) ==
    SelectSeq(TimesInterp(<<x_0>>, Ts), LAMBDA t : t >= win_0 /\ t < win_1)

\* np.interp(x_interp, xp_interp, edge_1.values) at grid time t
Interp(t, xp, fp) ==
    IF t <= xp[1] THEN fp[1]
    ELSE IF t >= xp[Len(xp)] THEN fp[Len(fp)]
    ELSE fp[CHOOSE k \in DOMAIN xp : xp[k] = t]

\* (edge_1.rolling(roll_win).std() / edge_1.rolling(roll_win).mean()) < stab_thresh
\* at 1-based position i: NaN before a full window, and NaN or inf for a zero
\* mean, compare False; std uses ddof = 1.
Stable(edge_1, i) ==
    IF i < roll_win THEN FALSE
    ELSE
        LET w  == SubSeq(edge_1, i - roll_win + 1, i)
            s1 == SumSeq(w)
            s2 == SumSeq([k \in DOMAIN w |-> w[k] * w[k]])
            n  == roll_win
        IN  IF s1 = 0 THEN FALSE
            ELSE IF s1 < 0 THEN TRUE
            \* std / mean < 1/20  <=>  400 n (n s2 - s1^2) < (n - 1) s1^2
            ELSE StabThreshInverse * StabThreshInverse * n * (n * s2 - s1 * s1)
                     < (n - 1) * s1 * s1

\* np.argmax: the first position of the largest element, 0-based
ArgMaxFirst(s) ==
    SetMin({k \in DOMAIN s : s[k] = SetMax(Range(s))}) - 1

\* the clamp of lines 544-549: each end is moved on its own comparison
ClampFitWindow(fitWin_0, fitWin_1) ==
    <<IF fitWin_0 < win_0 + margin THEN win_0 + margin ELSE fitWin_0,
      IF fitWin_1 > win_1 - margin THEN win_1 - margin ELSE fitWin_1>>

\* a selection that answers an empty run list with the first sample
LongestRunOrFirst(islands, island_lengths) ==
    IF Len(island_lengths) = 0 THEN Ok(<<0, 0>>)
    ELSE Ok(islands[ArgMaxFirst(island_lengths) + 1])

\* lines 532-533: np.argmax raises ValueError on an empty sequence
LongestRun(islands, island_lengths) ==
    IF Len(island_lengths) = 0 THEN Raise("ValueError")
    ELSE Ok(islands[ArgMaxFirst(island_lengths) + 1])

FitWindow(Ts, edge_0) ==
    LET times   == TimesInterp(<<x_0>>, Ts)
        xp      == WindowTimes(Ts)
        edge_1  == [i \in DOMAIN times |-> Interp(times[i], xp, edge_0)]
        tf      == [i \in DOMAIN times |-> IF Stable(edge_1, i) THEN 1 ELSE 0]
        found   == islandinfo(tf, 1, TRUE).value
        longest == LongestRun(found.islands, found.lens)
    IN  IF longest.status # "ok" THEN longest   \* nothing encloses lines 532-533
        ELSE
            LET island == longest.value
                sInx   == island[1]
                eInx   == island[2]
                lim    == ClampFitWindow(times[sInx + 1], times[eInx + 1])
            IN  Ok([tf        |-> tf,
                    island    |-> island,
                    index     |-> times,
                    fitWinLim |-> lim,
                    fit_times |-> SelectSeq(times,
                                     LAMBDA t : t >= lim[1] /\ t < lim[2])])

\* edge_0 inside the analysis window: piecewise constant, at most three
\* levels; on the fine grid the level changes fall on every fifth sample
ChangePoints(n) == {c \in 0..n : n <= 20 \/ c % 5 = 0}

EdgeSeries(n) ==
    {[i \in 1..n |-> IF i <= c1 THEN a ELSE IF i <= c2 THEN b ELSE c] :
        c1 \in ChangePoints(n), c2 \in ChangePoints(n),
        a \in EdgeLevels, b \in EdgeLevels, c \in EdgeLevels}

InitWindow ==
    /\ RunIdle
    /\ \E Ts \in TsChoices :
         args \in [Ts : {Ts}, edge_0 : EdgeSeries(Len(WindowTimes(Ts)))]
    /\ ret = Pending

CallFitWindow ==
    /\ ret = Pending
    /\ ret' = FitWindow(args.Ts, args.edge_0)
    /\ UNCHANGED <<args, runVars>>

SpecWindow == InitWindow /\ [][CallFitWindow]_vars

\* C4: whenever the stability series has at least one stable run, the final
\* fit window satisfies fitWin_0 < fitWin_1, with both bounds inside the outer
\* analysis window [date+12h, date+24h].
C4_FitWindowOrdered ==
    ret.status = "ok" =>
        /\ ret.value.fitWinLim[1] < ret.value.fitWinLim[2]
        /\ 12 * 60 <= ret.value.fitWinLim[1]
        /\ ret.value.fitWinLim[2] <= 24 * 60

\* the resampled series of a call has no sample marked stable
NoStableSample ==
    LET times  == TimesInterp(<<x_0>>, args.Ts)
        xp     == WindowTimes(args.Ts)
        edge_1 == [i \in DOMAIN times |-> Interp(times[i], xp, args.edge_0)]
    IN  \A i \in DOMAIN times : ~Stable(edge_1, i)

\* C13: if no sample of the resampled edge series is marked stable, the run
\* list is empty and the call ends with the ValueError of the longest-run
\* selection, which no handler encloses: no fit window, no bundle and no
\* placeholder fit are produced.
C13_NoStableRunRaises ==
    (ret # Pending /\ NoStableSample) => ret = Raise("ValueError")

\* an edge that is nowhere zero, so the coefficient of variation is a number
\* in every full window, and never below the threshold
C13_Witness ==
    /\ ret = Raise("ValueError")
    /\ NoStableSample
    /\ \A i \in DOMAIN args.edge_0 : args.edge_0[i] # 0

(***************************************************************************)
(* run_edge_detect: the fit block, the selection and the classification    *)
(* A dict is a function from its keys.  The numerical stages before the    *)
(* fit are deterministic library computations on the frame; a frame is     *)
(* given by what they lead to: no data, an error raised inside the fit     *)
(* block before the loop, or the solver's outcome for each initial guess.  *)
(***************************************************************************)
VariedGuesses == 1

MaxCalls == 3

EmptyDict == [k \in {} |-> 0]

\* np.arange(1, 4.5, 0.5), in tenths of an hour
T_hr_guesses == [k \in 1..((45 - 10 + 4) \div 5) |-> 10 + 5 * (k - 1)]

DefaultTHrLim == <<10, 45>>

DefaultAmplitudeKm == <<20, 2000>>

DefaultR2 == <<35, 110>>

DefaultKeys == {"T_hr", "amplitude_km", "r2"}

\* curve_fit's five parameters and the r2 of the fitted sinusoid
FitOutcome(T_hr, amplitude_km, r2) ==
    [kind |-> "fit", sinFit |-> <<T_hr, amplitude_km, 0, 3, 0>>, r2 |-> r2]

\* per guess: curve_fit raises, a later statement of the iteration raises,
\* or the fit is recorded
Outcomes ==
    {[kind |-> "fail"], [kind |-> "error"],
     FitOutcome(25, 50, 90), FitOutcome(10, 0 - 20, 35), FitOutcome(45, 50, 60),
     FitOutcome(25, 2000, 95), FitOutcome(25, 50, 34)}

NoData == [data |-> "none"]

FitFrames(outcomes) ==
    [data : {"ok"}, pre_error : {FALSE},
     head : [1..VariedGuesses -> outcomes], rest : outcomes]

Frames == {NoData} \cup [data : {"ok"}, pre_error : {TRUE},
                         head : {[k \in 1..VariedGuesses |-> [kind |-> "fail"]]},
                         rest : {[kind |-> "fail"]}]
                   \cup FitFrames(Outcomes)

OutcomeOf(frame, k) == IF k <= Len(frame.head) THEN frame.head[k] ELSE frame.rest

\* lines 606-623: the record appended for a successful guess
FitRecord(outcome, T_hr_guess) ==
    [key \in {"T_hr", "amplitude_km", "phase_hr", "offset_km", "slope_kmph",
              "r2", "T_hr_guess"} |->
        CASE key = "T_hr"         -> outcome.sinFit[1]
          [] key = "amplitude_km" -> IF outcome.sinFit[2] < 0 THEN 0 - outcome.sinFit[2]
                                     ELSE outcome.sinFit[2]       \* np.abs
          [] key = "phase_hr"     -> outcome.sinFit[3]
          [] key = "offset_km"    -> outcome.sinFit[4]
          [] key = "slope_kmph"   -> outcome.sinFit[5]
          [] key = "r2"           -> outcome.r2
          [] key = "T_hr_guess"   -> T_hr_guess]

\* except: break
StopAfterFailure(k) == Len(T_hr_guesses) + 1

\* lines 601-604, except: continue: the guess tried after guess k failed
NextGuessAfterFailure(k) == k + 1

\* the loop of lines 592-623 from guess k on; "raised" when a statement
\* outside the inner try raises
RECURSIVE FitLoop(_, _, _)
FitLoop(frame, k, all_sin_fits) ==
    IF k > Len(T_hr_guesses) THEN Ok(all_sin_fits)
    ELSE
        LET outcome == OutcomeOf(frame, k)
        IN  CASE outcome.kind = "fail"  ->
                    FitLoop(frame, NextGuessAfterFailure(k), all_sin_fits)
              [] outcome.kind = "error" -> Raise("raised")
              [] outcome.kind = "fit"   ->
                    FitLoop(frame, k + 1,
                            Append(all_sin_fits, FitRecord(outcome, T_hr_guesses[k])))

\* the try block of lines 559-625: any error leaves all_sin_fits = []
FitBlock(frame) ==
    IF frame.pre_error THEN <<>>
    ELSE LET res == FitLoop(frame, 1, <<>>)
         IN  IF res.status = "ok" THEN res.value ELSE <<>>

\* sorted(all_sin_fits, key=itemgetter('r2'), reverse=True): stable
RECURSIVE SortByR2(_)
SortByR2(fits) ==
    IF fits = <<>> THEN <<>>
    ELSE
        LET best == SetMax({fits[i]["r2"] : i \in DOMAIN fits})
            at   == SetMin({i \in DOMAIN fits : fits[i]["r2"] = best})
        IN  <<fits[at]>> \o
            SortByR2([i \in 1..(Len(fits) - 1) |->
                         IF i < at THEN fits[i] ELSE fits[i + 1]])

\* d with d[key] = value, the key added when absent
DictSet(d, key, value) ==
    [k \in DOMAIN d \cup {key} |-> IF k = key THEN value ELSE d[k]]

\* lines 648-653
FillDefaults(lstid_criteria, lstid_T_hr_lim) ==
    LET c1 == IF "T_hr" \notin DOMAIN lstid_criteria
              THEN DictSet(lstid_criteria, "T_hr", lstid_T_hr_lim)
              ELSE lstid_criteria
        c2 == IF "amplitude_km" \notin DOMAIN c1
              THEN DictSet(c1, "amplitude_km", DefaultAmplitudeKm) ELSE c1
    IN  IF "r2" \notin DOMAIN c2 THEN DictSet(c2, "r2", DefaultR2) ELSE c2

\* val >= crit[0] and val <= crit[1]
InCriterionClosed(val, crit) == val >= crit[1] /\ val <= crit[2]

\* line 659: np.logical_and(val >= crit[0], val < crit[1])
InCriterion(val, crit) == val >= crit[1] /\ val < crit[2]

\* lines 655-661: KeyError for a criterion key the fit does not have
Classify(p0_sin_fit, lstid_criteria) ==
    IF \E key \in DOMAIN lstid_criteria : key \notin DOMAIN p0_sin_fit
    THEN Raise("KeyError")
    ELSE Ok(\A key \in DOMAIN lstid_criteria :
                InCriterion(p0_sin_fit[key], lstid_criteria[key]))

\* lines 627-645; p0_poly_fit is given by its keys
Selection(all_sin_fits) ==
    IF Len(all_sin_fits) > 0
    THEN LET sorted == SortByR2(all_sin_fits)
             first  == DictSet(sorted[1], "selected", TRUE)
         IN  [all_sin_fits |-> [sorted EXCEPT ![1] = first],
              p0_sin_fit   |-> first,
              sin_fit      |-> "series",
              poly_fit     |-> "series",
              p0_poly_fit  |-> {"c_0", "c_1", "c_2", "r2"},
              data_detrend |-> "series"]
    ELSE [all_sin_fits |-> <<>>,
          p0_sin_fit   |-> EmptyDict,
          sin_fit      |-> "placeholder",
          poly_fit     |-> "placeholder",
          p0_poly_fit  |-> {},
          data_detrend |-> "placeholder"]

\* a caller's dict merged into the shared default
StoreAlways(default_dict, supplied, filled) == filled

\* The dict the def statement bound to lstid_criteria={} is the one object
\* every call that omits the argument receives and fills in place.
StoreDefault(default_dict, supplied, filled) ==
    IF supplied THEN default_dict ELSE filled

\* a no-data check placed after the criteria defaults instead of before them
NoDataAfterDefaults(lstid_T_hr_lim, default_dict) ==
    [result  |-> [status |-> "None", warned |-> TRUE],
     default |-> FillDefaults(default_dict, lstid_T_hr_lim)]

\* lines 444-446: warnings.warn, then a bare return (None); nothing else of
\* the function has run
NoDataReturn(lstid_T_hr_lim, default_dict) ==
    [result  |-> [status |-> "None", warned |-> TRUE],
     default |-> default_dict]

\* run_edge_detect for one call: the returned value and the default dict
\* object as the call leaves it
run_edge_detect(call, default_dict) ==
    IF call.frame.data = "none"
    THEN NoDataReturn(call.lstid_T_hr_lim, default_dict)
    ELSE
        LET passed == IF call.supplied THEN call.lstid_criteria ELSE default_dict
            sel    == Selection(FitBlock(call.frame))
            crit   == FillDefaults(passed, call.lstid_T_hr_lim)
            stored == StoreDefault(default_dict, call.supplied, crit)
            hasFit == DOMAIN sel.p0_sin_fit # {}
            cls    == IF hasFit THEN Classify(sel.p0_sin_fit, crit) ELSE Ok(FALSE)
            p0     == IF hasFit /\ cls.status = "ok"
                      THEN DictSet(sel.p0_sin_fit, "is_lstid", cls.value)
                      ELSE sel.p0_sin_fit
        IN  IF cls.status # "ok"
            THEN [result |-> Raise("KeyError"), default |-> stored]
            ELSE [result |->
                     [status       |-> "ok",
                      sin_fit      |-> sel.sin_fit,
                      p0_sin_fit   |-> p0,
                      poly_fit     |-> sel.poly_fit,
                      p0_poly_fit  |-> sel.p0_poly_fit,
                      data_detrend |-> sel.data_detrend,
                      \* all_sin_fits[0] is the dict p0_sin_fit names
                      all_sin_fits |-> IF hasFit
                                       THEN [sel.all_sin_fits EXCEPT ![1] = p0]
                                       ELSE sel.all_sin_fits,
                      metaData     |-> [lstid_criteria |-> crit]],
                  default |-> stored]

Lims == {DefaultTHrLim, <<20, 30>>}

CustomCriterion(key) ==
    CASE key = "T_hr"         -> <<20, 40>>
      [] key = "amplitude_km" -> <<10, 60>>
      [] key = "r2"           -> <<50, 110>>

\* the dicts a caller passes: any subset of the three documented keys, a
\* criterion on another fitted parameter, and a key no fit has
ExplicitCriteria ==
    {[key \in S |-> CustomCriterion(key)] : S \in SUBSET DefaultKeys}
    \cup {[key \in {"phase_hr"} |-> <<0, 1>>], [key \in {"phase_hr"} |-> <<1, 2>>],
          [key \in {"snr"} |-> <<0, 1>>]}

CallsOver(frames, criteria) ==
    [frame : frames, lstid_T_hr_lim : Lims, supplied : {TRUE}, lstid_criteria : criteria]
    \cup [frame : frames, lstid_T_hr_lim : Lims, supplied : {FALSE},
          lstid_criteria : {EmptyDict}]

Calls == CallsOver(Frames, ExplicitCriteria)

PureIdle ==
    /\ args = <<>>
    /\ ret = Pending

Init ==
    /\ lstid_criteria_default = EmptyDict
    /\ last = NoCall
    /\ remembered = NoCall
    /\ PureIdle

\* one call of run_edge_detect by a caller holding no earlier result
CallRunEdgeDetect(calls) ==
    /\ last.status = "none"
    /\ last.seq < MaxCalls
    /\ \E call \in calls :
         LET out == run_edge_detect(call, lstid_criteria_default)
         IN  /\ last' = [status |-> "returned", seq |-> last.seq + 1,
                         args |-> call, result |-> out.result]
             /\ lstid_criteria_default' = out.default
    /\ UNCHANGED <<remembered, pureVars>>

\* the caller is done with the result
ConsumeResult ==
    /\ last.status = "returned"
    /\ last' = [status |-> "none", seq |-> last.seq]
    /\ UNCHANGED <<lstid_criteria_default, remembered, pureVars>>

Next ==
    \/ CallRunEdgeDetect(Calls)
    \/ ConsumeResult

Spec == Init /\ [][Next]_vars

Returned == last.status = "returned" /\ last.result.status = "ok"

\* C1: whenever a returned call has a selected best fit, is_lstid is true if
\* and only if every criterion key of the criteria mapping the call used has
\* its fitted value v with low <= v < high.
C1_Classification ==
    (Returned /\ "T_hr" \in DOMAIN last.result.p0_sin_fit) =>
        LET p0   == last.result.p0_sin_fit
            crit == last.result.metaData.lstid_criteria
        IN  /\ "is_lstid" \in DOMAIN p0
            /\ p0["is_lstid"] <=>
                 \A key \in DOMAIN crit :
                     crit[key][1] <= p0[key] /\ p0[key] < crit[key][2]

\* a best fit whose period equals the upper period bound and which meets
\* every other criterion: classified negative
C1_Witness ==
    /\ Returned
    /\ "T_hr" \in DOMAIN last.result.p0_sin_fit
    /\ LET p0   == last.result.p0_sin_fit
           crit == last.result.metaData.lstid_criteria
       IN  /\ p0["T_hr"] = crit["T_hr"][2]
           /\ \A key \in DOMAIN crit \ {"T_hr"} :
                  crit[key][1] <= p0[key] /\ p0[key] < crit[key][2]
           /\ ~p0["is_lstid"]

\* C2: in every call, each criterion key the caller did not supply takes its
\* stated default: T_hr this call's lstid_T_hr_lim, amplitude_km (20, 2000),
\* r2 (0.35, 1.1).
C2_DefaultsPerCall ==
    Returned =>
        LET crit     == last.result.metaData.lstid_criteria
            given    == IF last.args.supplied THEN DOMAIN last.args.lstid_criteria
                        ELSE {}
        IN  /\ "T_hr" \notin given => crit["T_hr"] = last.args.lstid_T_hr_lim
            /\ "amplitude_km" \notin given => crit["amplitude_km"] = <<20, 2000>>
            /\ "r2" \notin given => crit["r2"] = <<35, 110>>

\* C5: a solver failure for one guess is skipped, the other guesses are
\* attempted and every successful attempt is kept; if no guess succeeds or
\* another error is raised inside the fit block, the call still returns, with
\* no attempts, an empty best-fit record without is_lstid, and placeholder
\* series.
C5_FitFailureHandling ==
    (last.status = "returned" /\ last.args.frame.data = "ok") =>
        LET frame   == last.args.frame
            guesses == DOMAIN T_hr_guesses
            fitted  == {k \in guesses : OutcomeOf(frame, k).kind = "fit"}
            broken  == \/ frame.pre_error
                       \/ \E k \in guesses : OutcomeOf(frame, k).kind = "error"
            res     == last.result
        IN  IF broken \/ fitted = {}
            THEN /\ res.status = "ok"
                 /\ res.all_sin_fits = <<>>
                 /\ DOMAIN res.p0_sin_fit = {}
                 /\ res.sin_fit = "placeholder"
                 /\ res.poly_fit = "placeholder"
                 /\ res.data_detrend = "placeholder"
            ELSE res.status = "ok" =>
                 /\ Len(res.all_sin_fits) = Cardinality(fitted)
                 /\ {res.all_sin_fits[i]["T_hr_guess"] : i \in DOMAIN res.all_sin_fits}
                        = {T_hr_guesses[k] : k \in fitted}

\* the first guess is fitted and recorded, a later iteration raises outside
\* the inner try: the bundle is returned with no attempts
C5_Witness ==
    /\ Returned
    /\ last.args.frame.data = "ok"
    /\ OutcomeOf(last.args.frame, 1).kind = "fit"
    /\ \E k \in DOMAIN T_hr_guesses : OutcomeOf(last.args.frame, k).kind = "error"
    /\ last.result.all_sin_fits = <<>>
    /\ DOMAIN last.result.p0_sin_fit = {}

\* C11: a call for a date with no frame warns and returns None without
\* raising; its result carries no bundle, no fit and no classification, and
\* the shared default criteria dict is left exactly as the call found it.
C11_NoData ==
    [][(last'.status = "returned" /\ last'.args.frame.data = "none") =>
           /\ last'.result = [status |-> "None", warned |-> TRUE]
           /\ lstid_criteria_default' = lstid_criteria_default]_vars

\* the first call of the process has no frame and passes no lstid_criteria:
\* None is returned and the default dict is still empty
C11_Witness ==
    /\ last.status = "returned"
    /\ last.seq = 1
    /\ last.args.frame.data = "none"
    /\ ~last.args.supplied
    /\ last.result.status = "None"
    /\ last.result.warned
    /\ lstid_criteria_default = EmptyDict

(***************************************************************************)
(* Repeated calls in one process, one earlier call kept for comparison     *)
(***************************************************************************)
\* frames whose guesses all share one outcome
UniformFrames ==
    {f \in Frames : f.data = "none" \/ \A k \in DOMAIN f.head : f.head[k] = f.rest}

ComparedCriteria ==
    {EmptyDict, [key \in {"T_hr", "r2"} |-> CustomCriterion(key)],
     [key \in {"snr"} |-> <<0, 1>>]}

ComparedCalls == CallsOver(UniformFrames, ComparedCriteria)

\* the caller keeps the call's arguments and a copy of what it returned
Remember ==
    /\ last.status = "returned"
    /\ remembered.status = "none"
    /\ remembered' = last
    /\ last' = [status |-> "none", seq |-> last.seq]
    /\ UNCHANGED <<lstid_criteria_default, pureVars>>

NextCompared ==
    \/ CallRunEdgeDetect(ComparedCalls)
    \/ ConsumeResult
    \/ Remember

SpecCompared == Init /\ [][NextCompared]_vars

\* C3: two invocations with an identical frame and identical configuration
\* arguments return identical result contents, whatever other invocations ran
\* before or between them in the same process.
C3_Determinism ==
    (remembered.status = "returned" /\ last.status = "returned"
        /\ remembered.args = last.args)
    => remembered.result = last.result

\* the first call of the process, made without lstid_criteria, is repeated
\* after another call
C3_Witness ==
    /\ remembered.status = "returned"
    /\ last.status = "returned"
    /\ remembered.args = last.args
    /\ ~last.args.supplied
    /\ remembered.seq = 1
    /\ last.seq = 3
    /\ last.result.status = "ok"
    /\ "is_lstid" \in DOMAIN last.result.p0_sin_fit


(***************************************************************************)
(* run_edge_detect, lines 448-453: trimming the frame                      *)
(*                                                                         *)
(* A trim option is a scalar fraction or a (left, right) pair (tuple or    *)
(* list); fractions are in hundredths.                                     *)
(***************************************************************************)
TrimFractions == {0, 8, 10, 25}

AxisLengths == {4, 10, 12}

Scalar(v) == [kind |-> "scalar", v |-> v]

Pair(l, r) == [kind |-> "pair", l |-> l, r |-> r]

TrimOptions ==
    {Scalar(v) : v \in TrimFractions}
    \cup {Pair(l, r) : l \in TrimFractions, r \in TrimFractions}

\* isinstance(t, (tuple, list))
IsPair(t) == t.kind = "pair"

\* a, b = t : a pair unpacks into its two values, a float cannot be unpacked
Unpack(t) == IF IsPair(t) THEN Ok(<<t.l, t.r>>) ELSE Raise("TypeError")

\* math.floor(fraction * length), the fraction in hundredths
FloorOf(fraction, length) == (fraction * length) \div 100

\* the indices arr[start:-end] keeps on an axis of the given length; -0 is 0,
\* so an end of 0 is the stop index 0
Slice(length, start, end) ==
    LET stop == IF end = 0 THEN 0 ELSE length - end
    IN  {i \in 0..(length - 1) : start <= i /\ i < stop}

\* lines 448-453 on a frame of the given shape
trim(x_trim, y_trim, shape) ==
    LET xs == IF IsPair(x_trim) THEN Unpack(x_trim)
              ELSE Ok(<<x_trim.v, x_trim.v>>)
        \* line 449 tests y_trim and unpacks x_trim
        ys == IF IsPair(y_trim) THEN Unpack(x_trim)
              ELSE Ok(<<y_trim.v, y_trim.v>>)
    IN  IF xs.status # "ok" THEN xs
        ELSE IF ys.status # "ok" THEN ys
        ELSE
            LET xl_trim  == xs.value[1]
                xrt_trim == xs.value[2]
                yl_trim  == ys.value[1]
                yr_trim  == ys.value[2]
                xrt == FloorOf(xl_trim, shape[1])
                xl  == FloorOf(xrt_trim, shape[1])
                yr  == FloorOf(yl_trim, shape[2])
                yl  == FloorOf(yr_trim, shape[2])
            IN  Ok([yl_trim |-> yl_trim,
                    yr_trim |-> yr_trim,
                    removed |-> <<<<xrt, xl>>, <<yr, yl>>>>,
                    kept    |-> <<Slice(shape[1], xrt, xl),
                                  Slice(shape[2], yr, yl)>>])

InitTrim ==
    /\ RunIdle
    /\ args \in [x_trim : TrimOptions, y_trim : TrimOptions,
                 shape : AxisLengths \X AxisLengths]
    /\ ret = Pending

CallTrim ==
    /\ ret = Pending
    /\ ret' = trim(args.x_trim, args.y_trim, args.shape)
    /\ UNCHANGED <<args, runVars>>

SpecTrim == InitTrim /\ [][CallTrim]_vars

\* C12: when y_trim is a (left, right) pair, the second axis is trimmed with
\* the two values of that pair, floor(left * L) samples at the start and
\* floor(right * L) at the end, whatever x_trim is.
C12_YTrimOwnPair ==
    (ret # Pending /\ IsPair(args.y_trim)) =>
        /\ ret.status = "ok"
        /\ ret.value.yl_trim = args.y_trim.l
        /\ ret.value.yr_trim = args.y_trim.r
        /\ ret.value.removed[2] = <<FloorOf(args.y_trim.l, args.shape[2]),
                                    FloorOf(args.y_trim.r, args.shape[2])>>

=============================================================================
